---- MODULE Spec2Model ----
(***************************************************************************)
(* Model of src/utils/validation.ts: the validate* functions as operators  *)
(* computed as the code computes them, single calls of them as actions,    *)
(* and validateAll as a state machine with one step per validator call.    *)
(***************************************************************************)
EXTENDS Integers, Sequences, FiniteSets, TLC

\* ------------------------------------------------------------------ bounds

\* Longest string among the inputs.
MaxLen == 3
\* Longest validator sequence handed to validateAll.
MaxValidators == 2
\* Largest |2 * x| among the finite numbers x of the inputs.
MaxHalves == 4

\* ------------------------------------------------------------- JS values

\* A string is a sequence of one-character strings; a finite number x is held
\* as the integer 2 * x, so that 0.5, 1.5, ... are inputs too.
StrVal(s) == [type |-> "string", s |-> s, num |-> 0, special |-> "none"]
NumVal(k) == [type |-> "number", s |-> <<>>, num |-> k, special |-> "none"]
NaNVal == [type |-> "number", s |-> <<>>, num |-> 0, special |-> "NaN"]
InfinityVal == [type |-> "number", s |-> <<>>, num |-> 0, special |-> "Infinity"]
NegInfinityVal == [type |-> "number", s |-> <<>>, num |-> 0, special |-> "-Infinity"]
NullVal == [type |-> "object", s |-> <<>>, num |-> 0, special |-> "null"]
UndefinedVal == [type |-> "undefined", s |-> <<>>, num |-> 0, special |-> "undefined"]
TrueVal == [type |-> "boolean", s |-> <<>>, num |-> 0, special |-> "true"]

\* typeof value
TypeOf(v) == v.type

StringsOver(chars, n) == UNION {[1..k -> chars] : k \in 0..n}

NumberVals == {NumVal(k) : k \in -MaxHalves..MaxHalves}
             \cup {NaNVal, InfinityVal, NegInfinityVal}
NonStringVals == NumberVals \cup {NullVal, UndefinedVal, TrueVal}

\* ------------------------------------------------------- string built-ins

IsSpace(c) == c = " "

RECURSIVE TrimStart(_)
TrimStart(s) ==
  IF s # <<>> /\ IsSpace(Head(s)) THEN TrimStart(Tail(s)) ELSE s

RECURSIVE TrimEnd(_)
TrimEnd(s) ==
  IF s # <<>> /\ IsSpace(s[Len(s)]) THEN TrimEnd(SubSeq(s, 1, Len(s) - 1)) ELSE s

\* String.prototype.trim
Trim(s) == TrimEnd(TrimStart(s))

\* The characters of s as one string, as a template literal interpolates it.
RECURSIVE Text(_)
Text(s) == IF s = <<>> THEN "" ELSE Head(s) \o Text(Tail(s))

\* Number-to-string of a template literal, for the number k / 2.
NumText(k) ==
  LET a == IF k < 0 THEN -k ELSE k
      sign == IF k < 0 THEN "-" ELSE ""
  IN  IF a % 2 = 0 THEN sign \o ToString(a \div 2)
      ELSE sign \o ToString(a \div 2) \o ".5"

\* ---------------------------------------------------------------- results

Valid(v) == [valid |-> TRUE, value |-> v]
Invalid(e) == [valid |-> FALSE, error |-> e]

\* -------------------------------------------------------------- validators

validateNonEmpty(value, fieldName) ==
  IF TypeOf(value) # "string" THEN Invalid(fieldName \o " must be a string")
  ELSE LET trimmed == Trim(value.s)
       IN  IF Len(trimmed) = 0 THEN Invalid(fieldName \o " cannot be empty")
           ELSE Valid(StrVal(trimmed))

\* Mutant: the bound itself is rejected (<= for <).
validateMinLength_Strict(value, minLength, fieldName) ==
  IF TypeOf(value) # "string" THEN Invalid(fieldName \o " must be a string")
  ELSE IF Len(value.s) <= minLength
       THEN Invalid(fieldName \o " must be at least " \o ToString(minLength)
                    \o " character" \o (IF minLength = 1 THEN "" ELSE "s"))
       ELSE Valid(value)

validateMinLength(value, minLength, fieldName) ==
  IF TypeOf(value) # "string" THEN Invalid(fieldName \o " must be a string")
  ELSE IF Len(value.s) < minLength
       THEN Invalid(fieldName \o " must be at least " \o ToString(minLength)
                    \o " character" \o (IF minLength = 1 THEN "" ELSE "s"))
       ELSE Valid(value)

validateMaxLength(value, maxLength, fieldName) ==
  IF TypeOf(value) # "string" THEN Invalid(fieldName \o " must be a string")
  ELSE IF Len(value.s) > maxLength
       THEN Invalid(fieldName \o " must be at most " \o ToString(maxLength)
                    \o " character" \o (IF maxLength = 1 THEN "" ELSE "s"))
       ELSE Valid(value)

\* Mutant: the maximum is checked first.
validateLength_MaxFirst(value, minLength, maxLength, fieldName) ==
  LET maxResult == validateMaxLength(value, maxLength, fieldName)
  IN  IF ~maxResult.valid THEN maxResult
      ELSE validateMinLength(maxResult.value, minLength, fieldName)

validateLength(value, minLength, maxLength, fieldName) ==
  LET minResult == validateMinLength(value, minLength, fieldName)
  IN  IF ~minResult.valid THEN minResult
      ELSE validateMaxLength(minResult.value, maxLength, fieldName)

\* ----------------------------------------------------------------- RegExp

\* A RegExp object: its source and its global flag. The model holds one object
\* per (source, flag) pair; lastIndex is the object's only mutable slot.
RegExpObj(source, global) == [source |-> source, global |-> global]

NoSpaceAt(c) == ~IsSpace(c) /\ c # "@"

\* /^[^\s@]+@[^\s@]+\.[^\s@]+$/ on s: some "@" and a later "." split s into
\* three non-empty runs of characters that are neither white space nor "@".
EmailMatches(s) ==
  \E i \in 1..Len(s), j \in 1..Len(s) :
    /\ 1 < i /\ i + 1 < j /\ j < Len(s)
    /\ s[i] = "@" /\ s[j] = "."
    /\ \A k \in 1..Len(s) : k # i => NoSpaceAt(s[k])

\* The end (exclusive, counted from 0) of the leftmost match of the source in
\* s that starts at index >= start, or -1 when there is none.
MatchEnd(source, s, start) ==
  CASE source = "^a+$" ->
         IF start = 0 /\ Len(s) > 0 /\ \A k \in 1..Len(s) : s[k] = "a"
         THEN Len(s) ELSE -1
    [] source = "a" ->
         IF \E k \in (start + 1)..Len(s) : s[k] = "a"
         THEN CHOOSE k \in (start + 1)..Len(s) :
                /\ s[k] = "a"
                /\ \A m \in (start + 1)..(k - 1) : s[m] # "a"
         ELSE -1
    [] OTHER ->
         IF start = 0 /\ EmailMatches(s) THEN Len(s) ELSE -1

\* Where a test starts: a global RegExp resumes at its lastIndex.
TestStart(pattern, lastIndex) == IF pattern.global THEN lastIndex ELSE 0

\* RegExp.prototype.test(s) on an object whose lastIndex is lastIndex: whether
\* it matches, and the object's lastIndex afterwards.
RegExpTest(pattern, s, lastIndex) ==
  LET start == TestStart(pattern, lastIndex)
      e == IF start > Len(s) THEN -1 ELSE MatchEnd(pattern.source, s, start)
  IN  [found |-> e # -1,
       lastIndex |-> IF ~pattern.global THEN lastIndex
                     ELSE IF e = -1 THEN 0 ELSE e]

validatePattern(value, pattern, errorMessage, lastIndex) ==
  IF TypeOf(value) # "string" THEN Invalid(errorMessage)
  ELSE IF ~RegExpTest(pattern, value.s, lastIndex).found THEN Invalid(errorMessage)
       ELSE Valid(value)

\* The pattern's lastIndex once validatePattern has returned.
patternLastIndex(value, pattern, lastIndex) ==
  IF TypeOf(value) # "string" THEN lastIndex
  ELSE RegExpTest(pattern, value.s, lastIndex).lastIndex

\* The literal of validateEmail: a fresh object, lastIndex 0, at every call.
emailPattern == RegExpObj("email", FALSE)

validateEmail(value, fieldName) ==
  validatePattern(value, emailPattern,
                  fieldName \o " must be a valid email address", 0)

IsSchemeStart(c) == c = "a"
IsSchemeChar(c) == c \in {"a", "."}

\* Whether new URL(s) returns (TRUE) or throws: with no base URL, s stripped of
\* leading and trailing spaces has to begin with a scheme and its ":". (The
\* inputs spell no special scheme, so nothing after the ":" makes it throw.)
UrlParses(s) ==
  LET t == Trim(s)
  IN  \E i \in 2..Len(t) :
        /\ t[i] = ":"
        /\ IsSchemeStart(t[1])
        /\ \A k \in 2..(i - 1) : IsSchemeChar(t[k])

\* Mutant: no typeof check, so a non-string ends in the catch block.
validateUrl_CatchAll(value, fieldName) ==
  IF TypeOf(value) # "string" \/ ~UrlParses(value.s)
  THEN Invalid(fieldName \o " must be a valid URL")
  ELSE Valid(value)

validateUrl(value, fieldName) ==
  IF TypeOf(value) # "string" THEN Invalid(fieldName \o " must be a string")
  ELSE IF ~UrlParses(value.s) THEN Invalid(fieldName \o " must be a valid URL")
       ELSE Valid(value)

\* options.map((opt) => `"${opt}"`).join(", ")
RECURSIVE optionsList(_)
optionsList(options) ==
  IF options = <<>> THEN ""
  ELSE "\"" \o Text(Head(options)) \o "\""
       \o (IF Len(options) = 1 THEN "" ELSE ", " \o optionsList(Tail(options)))

validateOneOf(value, options, fieldName) ==
  IF TypeOf(value) # "string" THEN Invalid(fieldName \o " must be a string")
  ELSE IF ~(\E k \in 1..Len(options) : options[k] = value.s)
       THEN Invalid(fieldName \o " must be one of: " \o optionsList(options))
       ELSE Valid(value)

\* Number.isFinite, Number.isInteger
IsFinite(v) == TypeOf(v) = "number" /\ v.special = "none"
IsInteger(v) == IsFinite(v) /\ v.num % 2 = 0

validateNumberRange(value, min, max, fieldName) ==
  IF ~IsFinite(value) THEN Invalid(fieldName \o " must be a finite number")
  ELSE IF value.num < min \/ value.num > max
       THEN Invalid(fieldName \o " must be between " \o NumText(min)
                    \o " and " \o NumText(max))
       ELSE Valid(value)

\* Mutant: the sign is checked before Number.isInteger.
validatePositiveInteger_SignFirst(value, fieldName) ==
  IF TypeOf(value) = "number" /\ value.special = "none" /\ value.num <= 0
  THEN Invalid(fieldName \o " must be a positive integer")
  ELSE IF ~IsInteger(value) THEN Invalid(fieldName \o " must be an integer")
       ELSE Valid(value)

validatePositiveInteger(value, fieldName) ==
  IF ~IsInteger(value) THEN Invalid(fieldName \o " must be an integer")
  ELSE IF value.num <= 0 THEN Invalid(fieldName \o " must be a positive integer")
       ELSE Valid(value)

\* ------------------------------------------------------------------ state

VARIABLES
  pending,    \* the call a caller is about to make (drawn by Init), or NoRequest
  call,       \* the last call of a validator made: its request and its result
  ref,        \* an earlier call, kept to set a later one against
  lastIndex,  \* lastIndex of every RegExp object callers hold
  input,      \* validateAll: the value it was called with
  validators, \* validateAll: the validators it was called with
  pc,         \* validateAll: "idle", "loop" (lines 153-163) or "done" (returned)
  idx,        \* validateAll: position of the loop in validators, from 1
  value,      \* validateAll: the working value
  calls,      \* validateAll: every validator invocation so far, in order
  result      \* validateAll: what it returned

libVars == <<pending, call, ref, lastIndex>>
allVars == <<input, validators, pc, idx, value, calls, result>>
vars == <<pending, call, ref, lastIndex, input, validators, pc, idx, value, calls, result>>

NoRequest == [fn |-> "none"]
NoCall == [req |-> NoRequest]
NoResult == [valid |-> FALSE, error |-> "(not returned)"]

\* The RegExp objects callers pass to validatePattern.
RegExps == {RegExpObj("^a+$", FALSE), RegExpObj("a", FALSE), RegExpObj("a", TRUE)}

\* ----------------------------------------------------------------- inputs

FieldNames == {"Field", "Username"}

LengthStrings == StringsOver({" ", "a"}, MaxLen)
LengthValues == {StrVal(s) : s \in LengthStrings} \cup NonStringVals
Lengths == -1..(MaxLen + 1)

EmailStrings ==
  {<<"a", "@", "a", ".", "a">>, <<"@", "a", ".", "a">>, <<"a", "@">>,
   <<"a", "@", "a", ".">>, <<"a", " ", "@", "a", ".", "a">>,
   <<"a", "@", ".", "a">>, <<"a", ".", "a", "@", "a", ".", "a">>, <<"a">>}
UrlStrings ==
  {<<"a", ":">>, <<"a", ".", "a">>, <<"a", ".", ":", "a">>, <<" ", "a", ":", " ">>,
   <<":", "a">>, <<".", "a", ":">>, <<>>}
OptionLists == {<<>>, << <<"a">> >>, << <<"a">>, <<"a", "a">> >>, << <<"a", "a">>, <<>> >>}
Ranges == {-3, -2, 0, 1, 3}

NonEmptyRequests(V, F) ==
  [fn : {"validateNonEmpty"}, value : V, fieldName : F]
PatternRequests(V) ==
  [fn : {"validatePattern"}, value : V, pattern : RegExps, errorMessage : {"Invalid format"}]
MinLengthRequests(V, N, F) ==
  [fn : {"validateMinLength"}, value : V, minLength : N, fieldName : F]
MaxLengthRequests(V, N, F) ==
  [fn : {"validateMaxLength"}, value : V, maxLength : N, fieldName : F]
LengthRequests(V, N, F) ==
  [fn : {"validateLength"}, value : V, minLength : N, maxLength : N, fieldName : F]
EmailRequests(V, F) ==
  [fn : {"validateEmail"}, value : V, fieldName : F]
UrlRequests(V, F) ==
  [fn : {"validateUrl"}, value : V, fieldName : F]
OneOfRequests(V, O, F) ==
  [fn : {"validateOneOf"}, value : V, options : O, fieldName : F]
NumberRangeRequests(V, R, F) ==
  [fn : {"validateNumberRange"}, value : V, min : R, max : R, fieldName : F]
PositiveIntegerRequests(V, F) ==
  [fn : {"validatePositiveInteger"}, value : V, fieldName : F]

\* Every single call SpecCall draws its one call from.
Requests ==
  NonEmptyRequests(LengthValues, FieldNames)
  \cup PatternRequests(LengthValues)
  \cup MinLengthRequests(LengthValues, Lengths, FieldNames)
  \cup MaxLengthRequests(LengthValues, Lengths, FieldNames)
  \cup LengthRequests(LengthValues, Lengths, FieldNames)
  \cup EmailRequests({StrVal(s) : s \in EmailStrings} \cup NonStringVals, {"Email", "Username"})
  \cup UrlRequests({StrVal(s) : s \in UrlStrings} \cup NonStringVals, {"URL", "Username"})
  \cup OneOfRequests(LengthValues, OptionLists, FieldNames)
  \cup NumberRangeRequests(NumberVals \cup {StrVal(<<"a">>), NullVal}, Ranges, {"Number", "Count"})
  \cup PositiveIntegerRequests(NonStringVals \cup {StrVal(<<"a">>)}, {"Number", "Count"})

\* The few calls a caller makes and repeats, in any order, under SpecPure.
FewValues == {StrVal(<<>>), StrVal(<<"a">>), StrVal(<<"a", "a">>), StrVal(<<" ", "a">>),
              NumVal(2), NullVal}
FewRequests ==
  NonEmptyRequests(FewValues, {"Field"})
  \cup PatternRequests(FewValues)
  \cup MinLengthRequests(FewValues, {2}, {"Field"})
  \cup MaxLengthRequests(FewValues, {1}, {"Field"})
  \cup LengthRequests(FewValues, {1}, {"Field"})
  \cup EmailRequests({StrVal(<<"a", "@", "a", ".", "a">>), NullVal}, {"Email"})
  \cup UrlRequests({StrVal(<<"a", ":">>), NullVal}, {"URL"})
  \cup OneOfRequests(FewValues, {<< <<"a">> >>}, {"Field"})
  \cup NumberRangeRequests({NumVal(2), NumVal(-1), NaNVal}, {0, 1}, {"Number"})
  \cup PositiveIntegerRequests({NumVal(2), NumVal(1), NumVal(0)}, {"Number"})

\* -------------------------------------------- actions: one validator call

\* A caller makes the call a (one of A) and keeps what it returned.
Returned(a, r) ==
  /\ call' = [req |-> a, result |-> r]
  /\ UNCHANGED <<pending, ref>>
  /\ UNCHANGED allVars

CallNonEmpty(A) ==
  \E a \in A :
    /\ a.fn = "validateNonEmpty"
    /\ Returned(a, validateNonEmpty(a.value, a.fieldName))
    /\ UNCHANGED lastIndex

CallPattern(A) ==
  \E a \in A :
    /\ a.fn = "validatePattern"
    /\ Returned(a, validatePattern(a.value, a.pattern, a.errorMessage,
                                   lastIndex[a.pattern]))
    /\ lastIndex' = [lastIndex EXCEPT
         ![a.pattern] = patternLastIndex(a.value, a.pattern, lastIndex[a.pattern])]

CallMinLength(A) ==
  \E a \in A :
    /\ a.fn = "validateMinLength"
    /\ Returned(a, validateMinLength(a.value, a.minLength, a.fieldName))
    /\ UNCHANGED lastIndex

CallMaxLength(A) ==
  \E a \in A :
    /\ a.fn = "validateMaxLength"
    /\ Returned(a, validateMaxLength(a.value, a.maxLength, a.fieldName))
    /\ UNCHANGED lastIndex

CallLength(A) ==
  \E a \in A :
    /\ a.fn = "validateLength"
    /\ Returned(a, validateLength(a.value, a.minLength, a.maxLength, a.fieldName))
    /\ UNCHANGED lastIndex

CallEmail(A) ==
  \E a \in A :
    /\ a.fn = "validateEmail"
    /\ Returned(a, validateEmail(a.value, a.fieldName))
    /\ UNCHANGED lastIndex

CallUrl(A) ==
  \E a \in A :
    /\ a.fn = "validateUrl"
    /\ Returned(a, validateUrl(a.value, a.fieldName))
    /\ UNCHANGED lastIndex

CallOneOf(A) ==
  \E a \in A :
    /\ a.fn = "validateOneOf"
    /\ Returned(a, validateOneOf(a.value, a.options, a.fieldName))
    /\ UNCHANGED lastIndex

CallNumberRange(A) ==
  \E a \in A :
    /\ a.fn = "validateNumberRange"
    /\ Returned(a, validateNumberRange(a.value, a.min, a.max, a.fieldName))
    /\ UNCHANGED lastIndex

CallPositiveInteger(A) ==
  \E a \in A :
    /\ a.fn = "validatePositiveInteger"
    /\ Returned(a, validatePositiveInteger(a.value, a.fieldName))
    /\ UNCHANGED lastIndex

\* The caller keeps a call's request and result to set a later call against.
Remember ==
  /\ call # NoCall
  /\ ref # call
  /\ ref' = call
  /\ UNCHANGED <<pending, call, lastIndex>>
  /\ UNCHANGED allVars

AllIdle ==
  /\ input = NullVal
  /\ validators = <<>>
  /\ pc = "idle"
  /\ idx = 1
  /\ value = NullVal
  /\ calls = <<>>
  /\ result = NoResult

LibIdle ==
  /\ call = NoCall
  /\ ref = NoCall
  /\ lastIndex = [r \in RegExps |-> 0]

\* One call, of any validator on any input.
InitCall ==
  /\ pending \in Requests
  /\ LibIdle
  /\ AllIdle

CallNext ==
  \/ CallNonEmpty({pending})
  \/ CallPattern({pending})
  \/ CallMinLength({pending})
  \/ CallMaxLength({pending})
  \/ CallLength({pending})
  \/ CallEmail({pending})
  \/ CallUrl({pending})
  \/ CallOneOf({pending})
  \/ CallNumberRange({pending})
  \/ CallPositiveInteger({pending})

SpecCall == InitCall /\ [][CallNext]_vars

\* Calls one after another, any of them remembered.
InitPure ==
  /\ pending = NoRequest
  /\ LibIdle
  /\ AllIdle

PureNext ==
  \/ CallNonEmpty(FewRequests)
  \/ CallPattern(FewRequests)
  \/ CallMinLength(FewRequests)
  \/ CallMaxLength(FewRequests)
  \/ CallLength(FewRequests)
  \/ CallEmail(FewRequests)
  \/ CallUrl(FewRequests)
  \/ CallOneOf(FewRequests)
  \/ CallNumberRange(FewRequests)
  \/ CallPositiveInteger(FewRequests)
  \/ Remember

SpecPure == InitPure /\ [][PureNext]_vars

\* ------------------------------------------------------------ validateAll

\* The unary validators a caller hands to validateAll: closures over the
\* library's validators, and a caller's own validator that transforms the value,
\*   (v) => typeof v === "string" && v.length <= n
\*            ? { valid: true, value: v + "a" } : { valid: false, error: "Too long" }
Validator(kind, n, pattern) == [kind |-> kind, n |-> n, pattern |-> pattern]

AllLengths == 1..(MaxLen - 1)

ValidatorSet ==
  {Validator("nonEmpty", 0, emailPattern)}
  \cup {Validator(k, n, emailPattern) : k \in {"minLength", "maxLength", "append"},
                                         n \in AllLengths}
  \cup {Validator("pattern", 0, p) : p \in RegExps}

AllInputs == {StrVal(s) : s \in LengthStrings} \cup {NumVal(2), NullVal}

ValidatorLists == UNION {[1..k -> ValidatorSet] : k \in 0..MaxValidators}

\* validator(value): the result, with the RegExp objects' lastIndex at li
Invoke(validator, v, li) ==
  CASE validator.kind = "nonEmpty" -> validateNonEmpty(v, "Field")
    [] validator.kind = "minLength" -> validateMinLength(v, validator.n, "Field")
    [] validator.kind = "maxLength" -> validateMaxLength(v, validator.n, "Field")
    [] validator.kind = "pattern" ->
         validatePattern(v, validator.pattern, "Invalid format", li[validator.pattern])
    [] OTHER ->
         IF TypeOf(v) = "string" /\ Len(v.s) <= validator.n
         THEN Valid(StrVal(v.s \o <<"a">>))
         ELSE Invalid("Too long")

\* validator(value): the RegExp objects' lastIndex afterwards
InvokeLastIndex(validator, v, li) ==
  IF validator.kind = "pattern"
  THEN [li EXCEPT ![validator.pattern] =
          patternLastIndex(v, validator.pattern, li[validator.pattern])]
  ELSE li

\* The invocation a step makes, as the log keeps it.
Invocation(phase, pos, arg, r) ==
  [phase |-> phase, pos |-> pos, arg |-> arg, result |-> r]

\* Mutant: the loop keeps the first error and goes on to the next validator.
Iterate_KeepsGoing ==
  /\ pc = "loop"
  /\ idx <= Len(validators)
  /\ LET validator == validators[idx]
         r == Invoke(validator, value, lastIndex)
     IN  /\ calls' = Append(calls, Invocation("loop", idx, value, r))
         /\ lastIndex' = InvokeLastIndex(validator, value, lastIndex)
         /\ idx' = idx + 1
         /\ IF ~r.valid
            THEN /\ result' = IF result = NoResult THEN r ELSE result
                 /\ pc' = IF idx = Len(validators) THEN "done" ELSE "loop"
                 /\ UNCHANGED value
            ELSE /\ value' = r.value
                 /\ UNCHANGED <<result, pc>>
  /\ UNCHANGED <<input, validators>>
  /\ UNCHANGED <<pending, call, ref>>

\* Mutant: the working value is never updated (line 159 missing).
Iterate_SameValue ==
  /\ pc = "loop"
  /\ idx <= Len(validators)
  /\ LET validator == validators[idx]
         r == Invoke(validator, value, lastIndex)
     IN  /\ calls' = Append(calls, Invocation("loop", idx, value, r))
         /\ lastIndex' = InvokeLastIndex(validator, value, lastIndex)
         /\ IF ~r.valid
            THEN /\ result' = r
                 /\ pc' = "done"
                 /\ UNCHANGED <<value, idx>>
            ELSE /\ idx' = idx + 1
                 /\ UNCHANGED <<value, result, pc>>
  /\ UNCHANGED <<input, validators>>
  /\ UNCHANGED <<pending, call, ref>>

\* One turn of the for loop: the next validator on the working value; its
\* Invalid result is returned at once, its Valid value becomes the working value.
Iterate ==
  /\ pc = "loop"
  /\ idx <= Len(validators)
  /\ LET validator == validators[idx]
         r == Invoke(validator, value, lastIndex)
     IN  /\ calls' = Append(calls, Invocation("loop", idx, value, r))
         /\ lastIndex' = InvokeLastIndex(validator, value, lastIndex)
         /\ IF ~r.valid
            THEN /\ result' = r
                 /\ pc' = "done"
                 /\ UNCHANGED <<value, idx>>
            ELSE /\ value' = r.value
                 /\ idx' = idx + 1
                 /\ UNCHANGED <<result, pc>>
  /\ UNCHANGED <<input, validators>>
  /\ UNCHANGED <<pending, call, ref>>

\* Mutant: the working value is returned, the last validator not run again.
Finish_NoReinvoke ==
  /\ pc = "loop"
  /\ idx > Len(validators)
  /\ result' = Valid(value)
  /\ pc' = "done"
  /\ UNCHANGED <<calls, lastIndex>>
  /\ UNCHANGED <<input, validators, value, idx>>
  /\ UNCHANGED <<pending, call, ref>>

\* Mutant: an Invalid result of the second run of the last validator is returned.
Finish_Propagates ==
  /\ pc = "loop"
  /\ idx > Len(validators)
  /\ IF validators = <<>>
     THEN /\ result' = Valid(value)
          /\ UNCHANGED <<calls, lastIndex>>
     ELSE LET validator == validators[Len(validators)]
              lastResult == Invoke(validator, value, lastIndex)
          IN  /\ calls' = Append(calls,
                                 Invocation("final", Len(validators), value, lastResult))
              /\ lastIndex' = InvokeLastIndex(validator, value, lastIndex)
              /\ result' = lastResult
  /\ pc' = "done"
  /\ UNCHANGED <<input, validators, value, idx>>
  /\ UNCHANGED <<pending, call, ref>>

\* After the loop: the last validator, if there is one, once more on the
\* working value; its value when that is Valid, the working value otherwise.
Finish ==
  /\ pc = "loop"
  /\ idx > Len(validators)
  /\ IF validators = <<>>
     THEN /\ result' = Valid(value)
          /\ UNCHANGED <<calls, lastIndex>>
     ELSE LET validator == validators[Len(validators)]
              lastResult == Invoke(validator, value, lastIndex)
          IN  /\ calls' = Append(calls,
                                 Invocation("final", Len(validators), value, lastResult))
              /\ lastIndex' = InvokeLastIndex(validator, value, lastIndex)
              /\ result' = IF lastResult.valid THEN Valid(lastResult.value)
                           ELSE Valid(value)
  /\ pc' = "done"
  /\ UNCHANGED <<input, validators, value, idx>>
  /\ UNCHANGED <<pending, call, ref>>

\* validateAll(input, validators), entered.
InitAll ==
  /\ input \in AllInputs
  /\ validators \in ValidatorLists
  /\ pc = "loop"
  /\ idx = 1
  /\ value = input
  /\ calls = <<>>
  /\ result = NoResult
  /\ pending = NoRequest
  /\ LibIdle

AllNext == Iterate \/ Finish

SpecAll == InitAll /\ [][AllNext]_vars

\* ------------------------------------------------- claims on single calls

StringValidators ==
  {"validateNonEmpty", "validatePattern", "validateMinLength", "validateMaxLength",
   "validateLength", "validateEmail", "validateUrl", "validateOneOf"}

\* A string validator has returned from a call with a non-string value.
NonStringCall ==
  /\ call.req.fn \in StringValidators
  /\ TypeOf(call.req.value) # "string"

\* C4 as stated: on a non-string input every string validator returns Invalid
\* with the type-error message "{field} must be a string".
C4_TypeErrorEverywhere ==
  NonStringCall =>
    /\ ~call.result.valid
    /\ \E f \in FieldNames \cup {"Email", "URL"} :
         call.result.error = f \o " must be a string"

\* C4 amended: on a non-string input every string validator returns Invalid;
\* the error is "{field} must be a string", except that validatePattern returns
\* the caller's errorMessage and validateEmail returns "{field} must be a valid
\* email address".
C4_NonStringInvalid ==
  NonStringCall =>
    /\ ~call.result.valid
    /\ call.result.error =
         CASE call.req.fn = "validatePattern" -> call.req.errorMessage
           [] call.req.fn = "validateEmail" ->
                call.req.fieldName \o " must be a valid email address"
           [] OTHER -> call.req.fieldName \o " must be a string"

C4_Witness ==
  /\ call.req.fn = "validateEmail"
  /\ call.req.value = NullVal
  /\ call.result = Invalid("Email must be a valid email address")

\* C5: validateLength returns what validateMinLength returns when that is
\* Invalid, and otherwise what validateMaxLength returns on its value; a string
\* failing both bounds gets the min-length error.
C5_LengthIsMinThenMax ==
  call.req.fn = "validateLength" =>
    LET r == call.req
        m == validateMinLength(r.value, r.minLength, r.fieldName)
    IN  /\ call.result = IF m.valid
                         THEN validateMaxLength(m.value, r.maxLength, r.fieldName)
                         ELSE m
        /\ (/\ TypeOf(r.value) = "string"
            /\ Len(r.value.s) < r.minLength
            /\ Len(r.value.s) > r.maxLength)
           => call.result =
                Invalid(r.fieldName \o " must be at least " \o ToString(r.minLength)
                        \o (IF r.minLength = 1 THEN " character" ELSE " characters"))

C5_Witness ==
  /\ call.req.fn = "validateLength"
  /\ TypeOf(call.req.value) = "string"
  /\ Len(call.req.value.s) < call.req.minLength
  /\ Len(call.req.value.s) > call.req.maxLength
  /\ ~call.result.valid

\* C7: validatePositiveInteger answers "must be an integer" to a non-number and
\* to a non-integral number of either sign, "must be a positive integer" to an
\* integer <= 0, and Valid with the same number to an integer > 0 only.
C7_IntegerBeforePositive ==
  call.req.fn = "validatePositiveInteger" =>
    LET v == call.req.value
        f == call.req.fieldName
        integral == TypeOf(v) = "number" /\ v.special = "none" /\ v.num % 2 = 0
    IN  /\ ~integral => call.result = Invalid(f \o " must be an integer")
        /\ (integral /\ v.num <= 0) =>
             call.result = Invalid(f \o " must be a positive integer")
        /\ (integral /\ v.num > 0) => call.result = Valid(v)
        /\ call.result.valid => (integral /\ v.num > 0)

\* validatePositiveInteger(-1.5)
C7_Witness ==
  /\ call.req.fn = "validatePositiveInteger"
  /\ call.req.value = NumVal(-3)
  /\ call.result = Invalid("Number must be an integer")

\* C8: on a string s, validateMinLength(s, n) is Valid iff length(s) >= n; Valid
\* carries s unchanged; the Invalid message says "character" iff n = 1.
C8_MinLength ==
  (call.req.fn = "validateMinLength" /\ TypeOf(call.req.value) = "string") =>
    LET s == call.req.value.s
        n == call.req.minLength
    IN  /\ call.result.valid <=> Len(s) >= n
        /\ call.result.valid => call.result.value = StrVal(s)
        /\ ~call.result.valid =>
             call.result.error =
               call.req.fieldName \o " must be at least " \o ToString(n)
               \o (IF n = 1 THEN " character" ELSE " characters")

\* validateMinLength("", 1)
C8_Witness ==
  /\ call.req.fn = "validateMinLength"
  /\ call.req.value = StrVal(<<>>)
  /\ call.req.minLength = 1
  /\ call.result = Invalid("Field must be at least 1 character")

\* ------------------------------------------------ claims on repeated calls

\* C6: two calls of the same validator with the same arguments (for
\* validatePattern the same RegExp object) return equal results, whatever
\* calls ran in between.
C6_SameCallSameResult ==
  (ref # NoCall /\ call.req.fn = ref.req.fn /\ call.req = ref.req)
    => call.result = ref.result

\* --------------------------------------------------- claims on validateAll

\* The invocations of the in-order pass (the for loop), in order.
LoopCalls == SelectSeq(calls, LAMBDA c : c.phase = "loop")
\* Its first Invalid result is at position k of the log.
FirstInvalidAt(k) ==
  /\ k \in 1..Len(calls)
  /\ calls[k].phase = "loop"
  /\ ~calls[k].result.valid
  /\ \A j \in 1..(k - 1) : calls[j].result.valid
\* Every validator returned Valid in the in-order pass, and validateAll returned.
AllPassed ==
  /\ pc = "done"
  /\ Len(LoopCalls) = Len(validators)
  /\ \A k \in 1..Len(LoopCalls) : LoopCalls[k].result.valid
\* How many times the validator at position p was invoked.
Invocations(p) == Cardinality({k \in 1..Len(calls) : calls[k].pos = p})

\* C1: once the validator at position k is the first to return Invalid,
\* validateAll has returned exactly that result and has invoked no validator
\* after position k.
C1_ShortCircuit ==
  \A k \in 1..Len(calls) :
    FirstInvalidAt(k) =>
      /\ pc = "done"
      /\ result = calls[k].result
      /\ k = Len(calls)
      /\ \A p \in 1..Len(validators) : p > calls[k].pos => Invocations(p) = 0

\* The first of several validators fails, the rest is never invoked.
C1_Witness ==
  /\ pc = "done"
  /\ Len(calls) = 1
  /\ FirstInvalidAt(1)
  /\ Len(validators) > 1
  /\ result = calls[1].result

\* C2: the first validator is invoked on the original input, the validator at
\* position i + 1 on the value of the Valid result of the validator at i.
C2_Threading ==
  \A k \in 1..Len(LoopCalls) :
    /\ LoopCalls[k].pos = k
    /\ LoopCalls[k].arg = IF k = 1 THEN input ELSE LoopCalls[k - 1].result.value

\* A later validator sees a value that differs from the original input.
C2_Witness ==
  /\ Len(LoopCalls) >= 2
  /\ LoopCalls[2].arg # input
  /\ LoopCalls[2].arg = LoopCalls[1].result.value

\* C3: when every validator succeeds, validateAll returns the value of the last
\* validator's result of the in-order pass (the original input when there is no
\* validator), whatever the validators are.
C3_LastPassValue ==
  AllPassed =>
    /\ result.valid
    /\ result.value = IF validators = <<>> THEN input
                      ELSE LoopCalls[Len(LoopCalls)].result.value

\* C9: when all n >= 1 validators succeed, the first n - 1 are invoked once each
\* and the last twice, the second time on the value it returned; when position
\* k fails first, positions up to k are invoked once each and none twice; with
\* no validator there is no invocation.
C9_InvocationCounts ==
  pc = "done" =>
    /\ AllPassed =>
         /\ \A p \in 1..(Len(validators) - 1) : Invocations(p) = 1
         /\ validators # <<>> =>
              /\ Invocations(Len(validators)) = 2
              /\ calls[Len(calls)].pos = Len(validators)
              /\ calls[Len(calls)].arg = LoopCalls[Len(LoopCalls)].result.value
         /\ validators = <<>> => calls = <<>>
    /\ \A k \in 1..Len(calls) :
         FirstInvalidAt(k) =>
           \A p \in 1..Len(validators) :
             Invocations(p) = IF p <= calls[k].pos THEN 1 ELSE 0

\* Two validators succeed: three invocations, the last validator's second one
\* among them.
C9_Witness ==
  /\ AllPassed
  /\ Len(validators) = 2
  /\ Invocations(1) = 1
  /\ Invocations(2) = 2

\* C10: validateAll returns Invalid only when a validator returned Invalid in
\* the in-order pass; when all of them passed it returns Valid, also when the
\* second run of the last validator returns Invalid, and then with the working
\* value (the last validator's value of the in-order pass).
C10_InvalidOnlyFromPass ==
  pc = "done" =>
    /\ ~result.valid => \E k \in 1..Len(calls) : FirstInvalidAt(k)
    /\ AllPassed => result.valid
    /\ (AllPassed /\ validators # <<>> /\ ~calls[Len(calls)].result.valid) =>
         result = Valid(LoopCalls[Len(LoopCalls)].result.value)

\* All validators passed and the second run of the last one returned Invalid.
C10_Witness ==
  /\ AllPassed
  /\ validators # <<>>
  /\ calls[Len(calls)].phase = "final"
  /\ ~calls[Len(calls)].result.valid
  /\ result.valid
====
